---- MODULE Spec2Model ----
(***************************************************************************)
(* DDACS dataset access layer (ddacs/core.py, ddacs/generators.py).        *)
(*                                                                         *)
(* Storage holds a metadata table (metadata.csv) and a directory of result *)
(* files {h5_dir}/{id}.h5.  A DDACSIterator reconciles the two when it is  *)
(* constructed and afterwards serves len, iteration, get_by_id, sample and *)
(* str from the filtered table it keeps in self._metadata.                 *)
(*                                                                         *)
(* Spec is the whole class over a changing result directory; SpecCalls and *)
(* SpecIter are its two halves (value-returning calls, iteration); SpecGen *)
(* sets the functions of generators.py beside the class.                   *)
(***************************************************************************)
EXTENDS Integers, Sequences, FiniteSets

\* ---------------------------------------------------------------- bounds
\* Simulation IDs are 1..MaxId; a metadata table has at most MaxRows rows.
MaxId == 3
MaxRows == 3

Ids == 1..MaxId
\* Requested sample sizes: negative, zero, up to and beyond the table size.
SampleSizes == (0 - 1)..(MaxRows + 1)

\* ------------------------------------------------------- storage contents
\* The header of metadata.csv: the ID column first, then the parameters.
Columns == <<"ID", "p1">>

\* The parameter cell of column `col` in the row of simulation `id`.
ParamValue(id, col) == 10 * id + col

\* One row of metadata.csv: the ID cell followed by its parameter cells.
MakeRow(id) == <<id>> \o [c \in 1..(Len(Columns) - 1) |-> ParamValue(id, c)]

\* Non-empty sequences over S without repetition, of length at most n.
InjSeqs(S, n) ==
    UNION { { s \in [1..k -> S] : \A i, j \in 1..k : s[i] = s[j] => i = j }
            : k \in 1..n }

\* A parsed table: what pd.read_csv returns.
DataFrame(ids) == [columns |-> Columns, rows |-> [i \in 1..Len(ids) |-> MakeRow(ids[i])]]

\* The metadata tables storage may hold: at least one row, unique integer
\* IDs, any order.  (A header-only metadata.csv is outside these inputs: how
\* pandas indexes a frame with the empty mask of an empty column is not
\* modelled.)
Tables == { DataFrame(ids) : ids \in InjSeqs(Ids, MaxRows) }

EmptyFrame == [columns |-> Columns, rows |-> <<>>]

VARIABLES
    h5_dir,         \* "absent", "file" or "dir": what is at {data_dir}/{h5_subdir}
    metadata_csv,   \* <<>> when metadata.csv is absent, else <<table>>
    h5_files,       \* the ids n for which {h5_dir}/{n}.h5 exists
    constructed,    \* whether the caller holds a DDACSIterator instance
    self_metadata,  \* the instance's self._metadata (a filtered table)
    gen,            \* the generator object of the running __iter__ call
    out,            \* the triples the consumer received from gen so far
    prev,           \* <<>> or <<list>>: the previous full iteration's list
    ret,            \* the outcome of the last call made in the current storage
                    \* state (a change of storage clears it)
    dataset_metadata, \* DDACSDataset._metadata, <<>> before a construction
    h5,             \* the result file the extraction functions are pointed
                    \* at: <<>> when no such file exists, else <<contents>>
    stack,          \* the frames of the extraction calls now running
    handles         \* the number of open h5py.File handles on the file

vars == <<h5_dir, metadata_csv, h5_files, constructed, self_metadata, gen, out, prev, ret,
          dataset_metadata, h5, stack, handles>>

storage == <<h5_dir, metadata_csv, h5_files>>
instance == <<constructed, self_metadata>>
consumer == <<gen, out, prev>>
adapter == <<dataset_metadata>>
extraction == <<h5, stack, handles>>

\* ------------------------------------------------------------ path model
\* h5_dir / f"{sim_id}.h5"
PathFor(sim_id) == [parent |-> "h5_dir", stem |-> sim_id, suffix |-> ".h5"]

\* Mutant of IsDir: the directory is tested with exists() instead of is_dir().
IsDirByExists == h5_dir # "absent"

\* Path.is_dir() of the result directory.
IsDir == h5_dir = "dir"

\* Path.exists() of the result directory.
DirExists == h5_dir # "absent"

\* Path.exists() of a result-file path.
PathExists(p) == h5_dir = "dir" /\ p.suffix = ".h5" /\ p.stem \in h5_files

\* Path.exists() of the metadata file.
MetadataExists == metadata_csv # <<>>

\* pd.read_csv(metadata_path)
ReadCsv == metadata_csv[1]

\* ---------------------------------------------------------- return values
NoGen == [state |-> "none", rows |-> <<>>, pos |-> 0]

Returned(op, arg, val) ==
    [op |-> op, arg |-> arg, raised |-> "none", val |-> val, warning |-> <<>>]

Raised(op, arg, exc) ==
    [op |-> op, arg |-> arg, raised |-> exc, val |-> <<>>, warning |-> <<>>]

\* ------------------------------------------------------------------ Init
Init ==
    /\ h5_dir \in {"absent", "file", "dir"}
    /\ metadata_csv \in {<<>>} \cup { <<t>> : t \in Tables }
    /\ h5_files = {}
    /\ constructed = FALSE
    /\ self_metadata = EmptyFrame
    /\ gen = NoGen
    /\ out = <<>>
    /\ prev = <<>>
    /\ ret = Returned("start", 0, <<>>)
    /\ dataset_metadata = <<>>
    /\ h5 = <<>>
    /\ stack = <<>>
    /\ handles = 0

\* --------------------------------------------------------------- storage
\* A result file appears in the result directory.
AddFile ==
    /\ h5_dir = "dir"
    /\ \E n \in Ids \ h5_files : h5_files' = h5_files \cup {n}
    /\ ret' = Returned("storage", 0, <<>>)
    /\ UNCHANGED <<h5_dir, metadata_csv, instance, consumer>>
    /\ UNCHANGED <<adapter, extraction>>

\* A result file disappears from the result directory.
RemoveFile ==
    /\ h5_dir = "dir"
    /\ \E n \in h5_files : h5_files' = h5_files \ {n}
    /\ ret' = Returned("storage", 0, <<>>)
    /\ UNCHANGED <<h5_dir, metadata_csv, instance, consumer>>
    /\ UNCHANGED <<adapter, extraction>>

\* ---------------------------------------------------------- DDACSIterator
\* Mutant of SelectRows: the kept rows come out in reverse table order.
RECURSIVE SelectRowsReversed(_, _)
SelectRowsReversed(rows, mask) ==
    IF rows = <<>> THEN <<>>
    ELSE SelectRowsReversed(Tail(rows), Tail(mask))
         \o (IF mask[1] THEN <<Head(rows)>> ELSE <<>>)

\* The rows whose mask entry is true, in the frame's order: frame[mask].
RECURSIVE SelectRows(_, _)
SelectRows(rows, mask) ==
    IF rows = <<>> THEN <<>>
    ELSE (IF mask[1] THEN <<Head(rows)>> ELSE <<>>)
         \o SelectRows(Tail(rows), Tail(mask))

\* _filter_existing_files: the mask, the filtered frame and the warning.
ExistsMask(frame) == [i \in 1..Len(frame.rows) |-> PathExists(PathFor(frame.rows[i][1]))]

\* The elements of a set of integers in ascending order.
RECURSIVE Ascending(_)
Ascending(S) ==
    IF S = {} THEN <<>>
    ELSE LET m == CHOOSE x \in S : \A y \in S : x <= y
         IN  <<m>> \o Ascending(S \ {m})

\* Mutant of FilterExistingFiles: the table is built from the result files
\* found in the directory instead of from the metadata rows.
FilterFromDirectory(frame) ==
    [columns |-> frame.columns,
     rows |-> LET found == Ascending(IF h5_dir = "dir" THEN h5_files ELSE {})
              IN  [i \in 1..Len(found) |-> MakeRow(found[i])]]

\* Mutant of FilterExistingFiles: the mask is not applied.
FilterNothing(frame) == frame

FilterExistingFiles(frame) ==
    [columns |-> frame.columns, rows |-> SelectRows(frame.rows, ExistsMask(frame))]

\* Mutant of FilterWarning: the warning is issued only when nothing is available.
FilterWarningOnlyWhenEmpty(frame) ==
    LET n_original == Len(frame.rows)
        n_filtered == Len(FilterExistingFiles(frame).rows)
    IN  IF n_filtered = 0 /\ n_original # 0
        THEN <<[available |-> n_filtered, total |-> n_original]>>
        ELSE <<>>

FilterWarning(frame) ==
    LET n_original == Len(frame.rows)
        n_filtered == Len(FilterExistingFiles(frame).rows)
    IN  IF n_original # n_filtered THEN <<[available |-> n_filtered, total |-> n_original]>>
        ELSE <<>>

\* DDACSIterator.__init__
Construct ==
    /\ IF ~IsDir \/ ~MetadataExists
       THEN /\ constructed' = FALSE
            /\ self_metadata' = EmptyFrame
            /\ ret' = Raised("init", 0, "FileNotFoundError")
       ELSE /\ constructed' = TRUE
            /\ self_metadata' = FilterExistingFiles(ReadCsv)
            /\ ret' = [Returned("init", 0, <<>>) EXCEPT !.warning = FilterWarning(ReadCsv)]
    /\ gen' = NoGen
    /\ out' = <<>>
    /\ prev' = <<>>
    /\ UNCHANGED storage
    /\ UNCHANGED <<adapter, extraction>>

\* Mutant of Triple: the parameters are the whole row, the ID cell included.
TripleWithIdCell(row) == <<row[1], row, PathFor(row[1])>>

\* Mutant of Triple: the path is built from the first parameter cell of the
\* row instead of its ID cell.
TripleWithParameterPath(row) == <<row[1], Tail(row), PathFor(row[2])>>

\* (sim_id, metadata_vals, h5_path) of one row: int(row["ID"]), row.values[1:]
\* and h5_dir / f"{sim_id}.h5".  iterrows() may hand the ID cell over as a
\* float64; int() of it is the ID again for every ID below 2^53, which the
\* IDs of the model are.
Triple(row) == <<row[1], Tail(row), PathFor(row[1])>>

\* DDACSIterator.__len__
LenCall ==
    /\ constructed
    /\ ret' = Returned("len", 0, <<Len(self_metadata.rows)>>)
    /\ UNCHANGED <<storage, instance, consumer>>
    /\ UNCHANGED <<adapter, extraction>>

\* iter(iterator): a new generator object for __iter__; no line of its body
\* has run yet.  The consumer keeps the list of a completed iteration.
IterStart ==
    /\ constructed
    /\ gen' = [state |-> "created", rows |-> <<>>, pos |-> 0]
    /\ out' = <<>>
    /\ prev' = IF gen.state = "done" THEN <<out>> ELSE prev
    /\ UNCHANGED <<storage, instance, ret>>
    /\ UNCHANGED <<adapter, extraction>>

\* Mutant of IterRows: the rows are filtered again by the files present when
\* the generator first runs.
IterRowsRechecked ==
    IF gen.state = "created" THEN FilterExistingFiles(self_metadata).rows ELSE gen.rows

\* The rows the loop of __iter__ walks: self._metadata.iterrows(), bound when
\* the generator first runs.
IterRows == IF gen.state = "created" THEN self_metadata.rows ELSE gen.rows

\* next(generator) on the generator of __iter__: one more triple, or the end.
IterNext ==
    /\ gen.state \in {"created", "running"}
    /\ IF gen.pos < Len(IterRows)
       THEN /\ out' = Append(out, Triple(IterRows[gen.pos + 1]))
            /\ gen' = [state |-> "running", rows |-> IterRows, pos |-> gen.pos + 1]
       ELSE /\ out' = out
            /\ gen' = [state |-> "done", rows |-> IterRows, pos |-> gen.pos]
    /\ UNCHANGED <<storage, instance, prev, ret>>
    /\ UNCHANGED <<adapter, extraction>>

\* The rows of `rows` whose ID cell equals sim_id, in order.
RECURSIVE RowsWithId(_, _)
RowsWithId(rows, sim_id) ==
    IF rows = <<>> THEN <<>>
    ELSE (IF Head(rows)[1] = sim_id THEN <<Head(rows)>> ELSE <<>>)
         \o RowsWithId(Tail(rows), sim_id)

\* Mutant of GetByIdValue: the lookup reads the unfiltered metadata file.
GetByIdValueUnfiltered(sim_id) ==
    LET row == RowsWithId(ReadCsv.rows, sim_id)
    IN  IF row = <<>> THEN <<>> ELSE <<Triple(row[1])>>

\* The value get_by_id returns: <<>> for None, else <<triple>>.
GetByIdValue(sim_id) ==
    LET row == RowsWithId(self_metadata.rows, sim_id)
    IN  IF row = <<>> THEN <<>> ELSE <<Triple(row[1])>>

\* Mutant of GetById: the lookup first prunes self._metadata to the files
\* that still exist.
GetByIdRefreshing ==
    /\ constructed
    /\ self_metadata' = FilterExistingFiles(self_metadata)
    /\ \E sim_id \in Ids :
          ret' = Returned("get_by_id", sim_id,
                          LET row == RowsWithId(self_metadata'.rows, sim_id)
                          IN  IF row = <<>> THEN <<>> ELSE <<Triple(row[1])>>)
    /\ UNCHANGED <<storage, constructed, consumer>>
    /\ UNCHANGED <<adapter, extraction>>

\* DDACSIterator.get_by_id
GetById ==
    /\ constructed
    /\ \E sim_id \in Ids : ret' = Returned("get_by_id", sim_id, GetByIdValue(sim_id))
    /\ UNCHANGED <<storage, instance, consumer>>
    /\ UNCHANGED <<adapter, extraction>>

Min(a, b) == IF a < b THEN a ELSE b

\* Mutant of PandasSample: rows are drawn with replacement.
PandasSampleWithReplacement(rows, k) ==
    { [i \in 1..k |-> rows[idx[i]]] : idx \in [1..k -> 1..Len(rows)] }

\* DataFrame.sample(n=k) without replacement: every choice of k distinct
\* rows in every order.  Only called with 0 <= k <= Len(rows).
PandasSample(rows, k) ==
    { [i \in 1..k |-> rows[idx[i]]] :
        idx \in { s \in [1..k -> 1..Len(rows)] : \A i, j \in 1..k : s[i] = s[j] => i = j } }

\* What list(iterator.sample(n)) can be: the ValueError pandas raises for a
\* negative n, or the triples of the sampled rows.
SampleOutcomes(rows, n) ==
    LET k == Min(n, Len(rows))
    IN  IF k < 0 THEN { Raised("sample", n, "ValueError") }
        ELSE { Returned("sample", n, [i \in 1..k |-> Triple(sampled[i])]) :
                 sampled \in PandasSample(rows, k) }

\* DDACSIterator.sample, consumed to its end.
Sample ==
    /\ constructed
    /\ \E n \in SampleSizes : ret' \in SampleOutcomes(self_metadata.rows, n)
    /\ UNCHANGED <<storage, instance, consumer>>
    /\ UNCHANGED <<adapter, extraction>>

\* DDACSIterator.__str__: the count line and the parameter column lines.
StrCall ==
    /\ constructed
    /\ ret' = Returned("str", 0,
                <<Len(self_metadata.rows),
                  IF Len(self_metadata.rows) > 0 THEN Tail(self_metadata.columns) ELSE <<>>>>)
    /\ UNCHANGED <<storage, instance, consumer>>
    /\ UNCHANGED <<adapter, extraction>>

\* ------------------------------------------------------------- generators
\* What list(sample_simulations(n, data_dir)) can be.
SampleSimulationsOutcomes(n) ==
    IF ~DirExists \/ ~MetadataExists
    THEN { Raised("sample_simulations", n, "FileNotFoundError") }
    ELSE LET available_metadata == FilterExistingFiles(ReadCsv)
         IN  IF Len(available_metadata.rows) = 0
             THEN { [Returned("sample_simulations", n, <<>>) EXCEPT
                       !.warning = <<"No simulations with existing H5 files found">>] }
             ELSE LET n_sample == Min(n, Len(available_metadata.rows))
                  IN  IF n_sample < 0
                      THEN { Raised("sample_simulations", n, "ValueError") }
                      ELSE { Returned("sample_simulations", n,
                                      [i \in 1..n_sample |-> Triple(sampled[i])]) :
                               sampled \in PandasSample(available_metadata.rows, n_sample) }

\* generators.sample_simulations, consumed to its end.
SampleSimulations ==
    /\ \E n \in SampleSizes : ret' \in SampleSimulationsOutcomes(n)
    /\ UNCHANGED <<storage, instance, consumer>>
    /\ UNCHANGED <<adapter, extraction>>

\* ------------------------------------------------- wider metadata tables
MaxParams == 2

ParamNames == <<"p1", "p2", "p3", "p4">>

\* The header of a metadata.csv with k parameter columns after the ID column.
WideColumns(k) == <<"ID">> \o SubSeq(ParamNames, 1, k)

WideRow(id, k) == <<id>> \o [c \in 1..k |-> ParamValue(id, c)]

\* The metadata tables with 0..MaxParams parameter columns.
WideTables ==
    { [columns |-> WideColumns(k), rows |-> [i \in 1..Len(ids) |-> WideRow(ids[i], k)]] :
        ids \in InjSeqs(Ids, MaxRows), k \in 0..MaxParams }

\* A dataset directory as it is found: a result directory with some result
\* files and a metadata.csv with some number of parameter columns.
InitParams ==
    /\ h5_dir = "dir"
    /\ metadata_csv \in { <<t>> : t \in WideTables }
    /\ h5_files \in SUBSET Ids
    /\ constructed = FALSE
    /\ self_metadata = EmptyFrame
    /\ gen = NoGen
    /\ out = <<>>
    /\ prev = <<>>
    /\ ret = Returned("start", 0, <<>>)
    /\ dataset_metadata = <<>>
    /\ h5 = <<>>
    /\ stack = <<>>
    /\ handles = 0

\* ----------------------------------------------------------- DDACSDataset
\* The idx arguments of __getitem__.
IndexArgs == (0 - MaxRows - 1)..MaxRows

\* DDACSDataset.__init__ (transform left at its default, None)
ConstructDataset ==
    /\ IF ~IsDir \/ ~MetadataExists
       THEN /\ dataset_metadata' = <<>>
            /\ ret' = Raised("dataset_init", 0, "FileNotFoundError")
       ELSE /\ dataset_metadata' = <<FilterExistingFiles(ReadCsv)>>
            /\ ret' = [Returned("dataset_init", 0, <<>>) EXCEPT
                         !.warning = FilterWarning(ReadCsv)]
    /\ UNCHANGED <<storage, instance, consumer, extraction>>

\* DDACSDataset.__len__
DatasetLen ==
    /\ dataset_metadata # <<>>
    /\ ret' = Returned("dataset_len", 0, <<Len(dataset_metadata[1].rows)>>)
    /\ UNCHANGED <<storage, instance, consumer, adapter, extraction>>

\* Mutant of Iloc: idx is taken as a 1-based position.
IlocOneBased(rows, idx) ==
    IF idx >= 1 /\ idx <= Len(rows) THEN <<rows[idx]>> ELSE <<>>

\* DataFrame.iloc[idx]: <<row>>, or <<>> where pandas raises IndexError.
\* A negative idx counts from the end.
Iloc(rows, idx) ==
    IF idx >= 0 /\ idx < Len(rows) THEN <<rows[idx + 1]>>
    ELSE IF idx < 0 /\ 0 - idx <= Len(rows) THEN <<rows[Len(rows) + idx + 1]>>
    ELSE <<>>

\* DDACSDataset.__getitem__
GetItem ==
    /\ dataset_metadata # <<>>
    /\ \E idx \in IndexArgs :
          LET row == Iloc(dataset_metadata[1].rows, idx)
          IN  ret' = IF row = <<>> THEN Raised("getitem", idx, "IndexError")
                     ELSE Returned("getitem", idx, <<Triple(row[1])>>)
    /\ UNCHANGED <<storage, instance, consumer, adapter, extraction>>

\* Mutant of YieldedBeforeMissing: a row whose result file is missing is
\* skipped and the walk goes on.
RECURSIVE YieldedSkippingMissing(_)
YieldedSkippingMissing(rows) ==
    IF rows = <<>> THEN <<>>
    ELSE (IF PathExists(PathFor(Head(rows)[1])) THEN <<Triple(Head(rows))>> ELSE <<>>)
         \o YieldedSkippingMissing(Tail(rows))

\* The triples iter_ddacs yields before it ends or raises: those of the
\* leading rows whose result file exists.
RECURSIVE YieldedBeforeMissing(_)
YieldedBeforeMissing(rows) ==
    IF rows = <<>> \/ ~PathExists(PathFor(Head(rows)[1])) THEN <<>>
    ELSE <<Triple(Head(rows))>> \o YieldedBeforeMissing(Tail(rows))

\* list(generators.iter_ddacs(data_dir)): val holds what was yielded, also
\* when the generator then raised.
IterDdacs ==
    /\ ret' = IF ~DirExists \/ ~MetadataExists
              THEN Raised("iter_ddacs", 0, "FileNotFoundError")
              ELSE LET yielded == YieldedBeforeMissing(ReadCsv.rows)
                   IN  IF Len(yielded) < Len(ReadCsv.rows)
                       THEN [Raised("iter_ddacs", 0, "FileNotFoundError") EXCEPT
                               !.val = yielded]
                       ELSE Returned("iter_ddacs", 0, yielded)
    /\ UNCHANGED <<storage, instance, consumer, adapter, extraction>>

\* Mutant of GetSimulationByIdValue: the result file is not looked for.
GetSimulationByIdValueUnchecked(sim_id) ==
    LET row == RowsWithId(ReadCsv.rows, sim_id)
    IN  IF row = <<>> THEN <<>>
        ELSE <<<<sim_id, Tail(row[1]), PathFor(sim_id)>>>>

\* What get_simulation_by_id returns once its path checks have passed:
\* <<>> for None, else <<triple>>.
GetSimulationByIdValue(sim_id) ==
    LET row == RowsWithId(ReadCsv.rows, sim_id)
    IN  IF row = <<>> THEN <<>>
        ELSE IF ~PathExists(PathFor(sim_id)) THEN <<>>
        ELSE <<<<sim_id, Tail(row[1]), PathFor(sim_id)>>>>

\* generators.get_simulation_by_id
GetSimulationById ==
    /\ \E sim_id \in Ids :
          ret' = IF ~DirExists \/ ~MetadataExists
                 THEN Raised("get_simulation_by_id", sim_id, "FileNotFoundError")
                 ELSE Returned("get_simulation_by_id", sim_id, GetSimulationByIdValue(sim_id))
    /\ UNCHANGED <<storage, instance, consumer, adapter, extraction>>

\* mask.sum(): the number of TRUE entries.
RECURSIVE MaskSum(_)
MaskSum(mask) ==
    IF mask = <<>> THEN 0
    ELSE (IF Head(mask) THEN 1 ELSE 0) + MaskSum(Tail(mask))

\* Mutant of CountAvailableSimulations: the rows of the table are counted.
CountAvailableSimulationsAllRows ==
    /\ ret' = IF ~DirExists \/ ~MetadataExists
              THEN Raised("count_available_simulations", 0, "FileNotFoundError")
              ELSE Returned("count_available_simulations", 0, <<Len(ReadCsv.rows)>>)
    /\ UNCHANGED <<storage, instance, consumer, adapter, extraction>>

\* generators.count_available_simulations
CountAvailableSimulations ==
    /\ ret' = IF ~DirExists \/ ~MetadataExists
              THEN Raised("count_available_simulations", 0, "FileNotFoundError")
              ELSE Returned("count_available_simulations", 0,
                            <<MaskSum(ExistsMask(ReadCsv))>>)
    /\ UNCHANGED <<storage, instance, consumer, adapter, extraction>>

\* ------------------------------------------------------- the result file
MaxT == 3
MaxElems == 2

\* The component groups under OP10 of the file, and the component names a
\* caller may pass: "die" is not in the file.
ComponentNames == {"blank", "binder"}
ComponentArgs == {"blank", "binder", "die"}

\* The timestep arguments a caller may pass.
TimestepArgs == (0 - 2)..(MaxT + 1)

\* node_ids of a component, in two storage orders.
NodeIdOrders == { <<11, 12, 13, 14, 15>>, <<15, 13, 11, 14, 12>> }

\* Rows of element_shell_node_ids: a quad, a quad with a repeated node and
\* a quad that names a node ID (99) that is not in node_ids.
QuadKinds == { <<11, 12, 13, 14>>, <<13, 14, 15, 15>>, <<11, 12, 13, 99>> }

ElementLists == UNION { [1..k -> QuadKinds] : k \in 0..MaxElems }

\* The stored numbers.  The nodes of a timestep lie on a parabola, so no
\* three different nodes are collinear.
Coordinate(c, n) == <<n, 2 * n, IF c = "blank" THEN 0 ELSE 5>>
Displacement(c, t, n) == <<n + 10 * t, n * n, IF c = "blank" THEN 1 ELSE 2>>
Thickness(c, t, e) == (IF c = "blank" THEN 100 ELSE 200) + 10 * t + e

\* One component group.  node_displacement has shape (T, nodes, 3) when
\* T > 0 and shape (nodes, 3) when T = 0; element_shell_thickness has shape
\* (thickness_T, elements).
Component(c, T, thickness_T, ids, elems) ==
    [ node_ids |-> ids,
      node_coordinates |-> [n \in 1..Len(ids) |-> Coordinate(c, n)],
      ndim |-> IF T > 0 THEN 3 ELSE 2,
      node_displacement |->
          IF T > 0
          THEN [t \in 1..T |-> [n \in 1..Len(ids) |-> Displacement(c, t - 1, n)]]
          ELSE [n \in 1..Len(ids) |-> Displacement(c, 0, n)],
      element_shell_node_ids |-> elems,
      element_shell_thickness |->
          [t \in 1..thickness_T |-> [e \in 1..Len(elems) |-> Thickness(c, t - 1, e)]] ]

DefaultIds == <<11, 12, 13, 14, 15>>
DefaultElems == << <<11, 12, 13, 14>> >>

\* Files whose components differ in the shape of node_displacement.
ShapeFiles ==
    { [c \in ComponentNames |->
          Component(c, IF c = "blank" THEN Tb ELSE Tn, 1, DefaultIds, DefaultElems)] :
        Tb \in 0..MaxT, Tn \in 0..MaxT }

\* Files whose blank differs in its mesh and in the timesteps of its
\* thickness field.
MeshFiles ==
    { [c \in ComponentNames |->
          IF c = "blank" THEN Component(c, 2, Tt, ids, elems)
          ELSE Component(c, 1, 1, DefaultIds, DefaultElems)] :
        Tt \in 1..MaxT, ids \in NodeIdOrders, elems \in ElementLists }

\* The file a call reads.
File == h5[1]

\* ---------------------------------------------------------- array access
\* Mutant of Index: a negative i is out of range.
IndexNonNegative(arr, i) ==
    IF i >= 0 /\ i < Len(arr) THEN <<arr[i + 1]>> ELSE <<>>

\* arr[i] of numpy and of h5py for an integer i: <<element>>, or <<>> where
\* IndexError is raised.  A negative i counts from the end.
Index(arr, i) ==
    IF i >= 0 /\ i < Len(arr) THEN <<arr[i + 1]>>
    ELSE IF i < 0 /\ 0 - i <= Len(arr) THEN <<arr[Len(arr) + i + 1]>>
    ELSE <<>>

\* a + b of two points and of two (nodes, 3) arrays.
AddPoints(a, b) == [k \in 1..Len(a) |-> a[k] + b[k]]
AddArrays(a, b) == [n \in 1..Len(a) |-> AddPoints(a[n], b[n])]

\* What a function body hands to its exit: a value or an exception.
Value(val) == [raised |-> "none", val |-> val, warning |-> <<>>]
Exception(exc) == [raised |-> exc, val |-> <<>>, warning |-> <<>>]

\* ------------------------------------------------------ function bodies
\* Mutant of PointCloudBody: a component that is not in the file gives an
\* empty array instead of an exception.
PointCloudBodyMissingAsEmpty(c, t) ==
    IF c \notin DOMAIN File THEN Value(<<>>)
    ELSE LET coords == Index(File[c].node_displacement, t)
         IN  IF coords = <<>> THEN Exception("IndexError") ELSE Value(coords[1])

\* utils.extract_point_cloud, the body of its with block.
PointCloudBody(c, t) ==
    IF c \notin DOMAIN File THEN Exception("KeyError")
    ELSE LET coords == Index(File[c].node_displacement, t)
         IN  IF coords = <<>> THEN Exception("IndexError") ELSE Value(coords[1])

\* id_to_index[nid]: the 0-based position of nid in node_ids (the last one,
\* should an ID be stored twice).
IdToIndex(node_ids, nid) ==
    (CHOOSE i \in 1..Len(node_ids) :
        /\ node_ids[i] = nid
        /\ \A j \in 1..Len(node_ids) : node_ids[j] = nid => j <= i) - 1

\* [id_to_index[nid] for nid in elem_nodes if nid in id_to_index]
RECURSIVE Indices(_, _)
Indices(node_ids, elem_nodes) ==
    IF elem_nodes = <<>> THEN <<>>
    ELSE (IF \E i \in 1..Len(node_ids) : node_ids[i] = Head(elem_nodes)
          THEN <<IdToIndex(node_ids, Head(elem_nodes))>> ELSE <<>>)
         \o Indices(node_ids, Tail(elem_nodes))

\* Mutant of Triangles: a quad is split along its other diagonal.
RECURSIVE TrianglesOtherDiagonal(_, _)
TrianglesOtherDiagonal(node_ids, element_node_ids) ==
    IF element_node_ids = <<>> THEN <<>>
    ELSE LET indices == Indices(node_ids, Head(element_node_ids))
         IN  (IF Len(indices) = 4
              THEN << <<indices[1], indices[2], indices[4]>>,
                      <<indices[2], indices[3], indices[4]>> >>
              ELSE <<>>)
             \o TrianglesOtherDiagonal(node_ids, Tail(element_node_ids))

\* The triangles list extract_mesh builds in its loop over the elements.
RECURSIVE Triangles(_, _)
Triangles(node_ids, element_node_ids) ==
    IF element_node_ids = <<>> THEN <<>>
    ELSE LET indices == Indices(node_ids, Head(element_node_ids))
         IN  (IF Len(indices) = 4
              THEN << <<indices[1], indices[2], indices[3]>>,
                      <<indices[1], indices[3], indices[4]>> >>
              ELSE <<>>)
             \o Triangles(node_ids, Tail(element_node_ids))

\* utils.extract_mesh, from the return of its extract_point_cloud call on.
MeshBody(c, vertices) ==
    Value(<<vertices, Triangles(File[c].node_ids, File[c].element_shell_node_ids)>>)

\* Mutant of ThicknessBody: -1 is resolved against the timesteps of
\* node_displacement instead of those of the thickness field.
ThicknessBodyByDisplacement(c, t) ==
    IF c \notin DOMAIN File THEN Exception("KeyError")
    ELSE LET thickness_data == File[c].element_shell_thickness
             timestep == IF t = 0 - 1 THEN Len(File[c].node_displacement) - 1 ELSE t
             thickness == Index(thickness_data, timestep)
         IN  IF thickness = <<>> THEN Exception("IndexError") ELSE Value(thickness[1])

\* utils.extract_element_thickness, the body of its with block.
ThicknessBody(c, t) ==
    IF c \notin DOMAIN File THEN Exception("KeyError")
    ELSE LET thickness_data == File[c].element_shell_thickness
             timestep == IF t = 0 - 1 THEN Len(thickness_data) - 1 ELSE t
             thickness == Index(thickness_data, timestep)
         IN  IF thickness = <<>> THEN Exception("IndexError") ELSE Value(thickness[1])

\* The elements list load_geometry_data builds: the index lists of the
\* quads all of whose node IDs are in node_ids.
RECURSIVE CompleteQuads(_, _)
CompleteQuads(node_ids, element_node_ids) ==
    IF element_node_ids = <<>> THEN <<>>
    ELSE LET elem_indices == Indices(node_ids, Head(element_node_ids))
         IN  (IF Len(elem_indices) = 4 THEN <<elem_indices>> ELSE <<>>)
             \o CompleteQuads(node_ids, Tail(element_node_ids))

\* visualization.load_geometry_data, the loop of its with block: the
\* components still to visit, the current value of the local `timestep`,
\* and the geometries and warnings gathered so far.
RECURSIVE LoadLoop(_, _, _, _)
LoadLoop(components, timestep, geometries, warned) ==
    IF components = <<>>
    THEN [Value(geometries) EXCEPT !.warning = warned]
    ELSE LET component == Head(components)
         IN  IF component \notin DOMAIN File
             THEN LoadLoop(Tail(components), timestep, geometries,
                           Append(warned, [component |-> component, kind |-> "not found"]))
             ELSE LET comp_group == File[component]
                      displacements == comp_group.node_displacement
                      max_timestep == Len(displacements) - 1
                      clipped == comp_group.ndim = 3 /\ timestep # 0 - 1
                                     /\ timestep > max_timestep
                      new_timestep ==
                          IF comp_group.ndim = 3 /\ (timestep = 0 - 1 \/ clipped)
                          THEN max_timestep ELSE timestep
                      disp == IF comp_group.ndim = 3
                              THEN Index(displacements, new_timestep)
                              ELSE <<displacements>>
                      new_warned ==
                          IF clipped
                          THEN Append(warned, [component |-> component, kind |-> "clipped"])
                          ELSE IF comp_group.ndim = 2 /\ timestep > 0
                          THEN Append(warned, [component |-> component, kind |-> "static"])
                          ELSE warned
                  IN  IF disp = <<>>
                      THEN [Exception("IndexError") EXCEPT !.warning = new_warned]
                      ELSE LoadLoop(Tail(components), new_timestep,
                                    Append(geometries,
                                           [component |-> component,
                                            coordinates |->
                                                AddArrays(comp_group.node_coordinates, disp[1]),
                                            elements |->
                                                CompleteQuads(comp_group.node_ids,
                                                    comp_group.element_shell_node_ids)]),
                                    new_warned)

\* ------------------------------------------------------ extraction calls
\* The frame of a call that has not yet run a line of its with statement.
Frame(fn, component, timestep) ==
    [fn |-> fn, component |-> component, timestep |-> timestep,
     pc |-> "open", outcome |-> Value(<<>>)]

Top == stack[Len(stack)]

\* The stack with its top frame changed.
WithTop(frame) == [stack EXCEPT ![Len(stack)] = frame]

\* What the caller of the top frame sees when that frame ends with
\* `outcome`: the result of the call when the caller is the program, else
\* the caller's frame goes on with the value or unwinds with the exception.
Finished(outcome) ==
    [op |-> Top.fn, arg |-> [component |-> Top.component, timestep |-> Top.timestep],
     raised |-> outcome.raised, val |-> outcome.val, warning |-> outcome.warning]

Deliver(outcome) ==
    IF Len(stack) = 1
    THEN /\ stack' = <<>>
         /\ ret' = Finished(outcome)
    ELSE /\ stack' = [SubSeq(stack, 1, Len(stack) - 1) EXCEPT ![Len(stack) - 1] =
                        [@ EXCEPT !.pc = IF outcome.raised = "none" THEN "returned" ELSE "exit",
                                  !.outcome = outcome]]
         /\ ret' = ret

\* The lists of components a caller may pass to load_geometry_data.
ComponentLists ==
    { <<c>> : c \in ComponentArgs }
    \cup { p \in ComponentNames \X ComponentNames : p[1] # p[2] }

\* A call of utils.extract_point_cloud by the program.
ExtractPointCloud ==
    /\ stack = <<>>
    /\ \E c \in ComponentArgs, t \in TimestepArgs :
          stack' = <<Frame("extract_point_cloud", c, t)>>
    /\ ret' = Returned("call", 0, <<>>)
    /\ UNCHANGED <<storage, instance, consumer, adapter, h5, handles>>

\* A call of utils.extract_mesh by the program.
ExtractMesh ==
    /\ stack = <<>>
    /\ \E c \in ComponentArgs, t \in TimestepArgs :
          stack' = <<Frame("extract_mesh", c, t)>>
    /\ ret' = Returned("call", 0, <<>>)
    /\ UNCHANGED <<storage, instance, consumer, adapter, h5, handles>>

\* A call of utils.extract_element_thickness by the program.
ExtractElementThickness ==
    /\ stack = <<>>
    /\ \E c \in ComponentArgs, t \in TimestepArgs :
          stack' = <<Frame("extract_element_thickness", c, t)>>
    /\ ret' = Returned("call", 0, <<>>)
    /\ UNCHANGED <<storage, instance, consumer, adapter, h5, handles>>

\* The operation numbers callers pass as the keyword argument `operation`.
OperationArgs == {10, 20}

\* A call of extract_mesh or extract_element_thickness with the keyword
\* argument `operation`: neither function has such a parameter, so Python
\* raises TypeError before a line of the function runs.
ExtractWithOperation ==
    /\ stack = <<>>
    /\ \E fn \in {"extract_mesh", "extract_element_thickness"},
          c \in ComponentArgs, t \in {0 - 1, 0}, operation \in OperationArgs :
          ret' = Raised("call_with_operation",
                        [fn |-> fn, component |-> c, timestep |-> t,
                         operation |-> operation],
                        "TypeError")
    /\ UNCHANGED <<storage, instance, consumer, adapter, extraction>>

\* A call of visualization.load_geometry_data by the program, up to its
\* with statement: it raises when h5_path.exists() is false.
LoadGeometryData ==
    /\ stack = <<>>
    /\ \E components \in ComponentLists, t \in TimestepArgs :
          IF h5 = <<>>
          THEN /\ stack' = <<>>
               /\ ret' = Raised("load_geometry_data",
                                [component |-> components, timestep |-> t],
                                "FileNotFoundError")
          ELSE /\ stack' = <<Frame("load_geometry_data", components, t)>>
               /\ ret' = Returned("call", 0, <<>>)
    /\ UNCHANGED <<storage, instance, consumer, adapter, h5, handles>>

\* Mutant of OpenFile: entering the with statement opens the file twice.
OpenFileTwice ==
    /\ stack # <<>> /\ Top.pc = "open"
    /\ IF h5 = <<>>
       THEN /\ Deliver(Exception("FileNotFoundError"))
            /\ handles' = handles
       ELSE /\ stack' = WithTop([Top EXCEPT !.pc = "body"])
            /\ handles' = handles + 2
            /\ ret' = ret
    /\ UNCHANGED <<storage, instance, consumer, adapter, h5>>

\* with h5py.File(h5_path, "r") as f: the file is opened, or the call ends
\* with FileNotFoundError when there is no file.
OpenFile ==
    /\ stack # <<>> /\ Top.pc = "open"
    /\ IF h5 = <<>>
       THEN /\ Deliver(Exception("FileNotFoundError"))
            /\ handles' = handles
       ELSE /\ stack' = WithTop([Top EXCEPT !.pc = "body"])
            /\ handles' = handles + 1
            /\ ret' = ret
    /\ UNCHANGED <<storage, instance, consumer, adapter, h5>>

\* The with block of extract_point_cloud.
PointCloudRead ==
    /\ stack # <<>> /\ Top.pc = "body" /\ Top.fn = "extract_point_cloud"
    /\ stack' = WithTop([Top EXCEPT !.pc = "exit",
                                    !.outcome = PointCloudBody(Top.component, Top.timestep)])
    /\ UNCHANGED <<storage, instance, consumer, adapter, h5, handles, ret>>

\* The with block of extract_mesh up to its call of extract_point_cloud,
\* made while the file is open.
MeshVertices ==
    /\ stack # <<>> /\ Top.pc = "body" /\ Top.fn = "extract_mesh"
    /\ IF Top.component \notin DOMAIN File
       THEN stack' = WithTop([Top EXCEPT !.pc = "exit", !.outcome = Exception("KeyError")])
       ELSE stack' = Append(WithTop([Top EXCEPT !.pc = "call"]),
                            Frame("extract_point_cloud", Top.component, Top.timestep))
    /\ UNCHANGED <<storage, instance, consumer, adapter, h5, handles, ret>>

\* The with block of extract_mesh after extract_point_cloud has returned.
MeshTriangles ==
    /\ stack # <<>> /\ Top.pc = "returned" /\ Top.fn = "extract_mesh"
    /\ stack' = WithTop([Top EXCEPT !.pc = "exit",
                                    !.outcome = MeshBody(Top.component, Top.outcome.val)])
    /\ UNCHANGED <<storage, instance, consumer, adapter, h5, handles, ret>>

\* The with block of extract_element_thickness.
ThicknessRead ==
    /\ stack # <<>> /\ Top.pc = "body" /\ Top.fn = "extract_element_thickness"
    /\ stack' = WithTop([Top EXCEPT !.pc = "exit",
                                    !.outcome = ThicknessBody(Top.component, Top.timestep)])
    /\ UNCHANGED <<storage, instance, consumer, adapter, h5, handles, ret>>

\* The with block of load_geometry_data.
LoadGeometryLoop ==
    /\ stack # <<>> /\ Top.pc = "body" /\ Top.fn = "load_geometry_data"
    /\ stack' = WithTop([Top EXCEPT !.pc = "exit",
                                    !.outcome = LoadLoop(Top.component, Top.timestep,
                                                         <<>>, <<>>)])
    /\ UNCHANGED <<storage, instance, consumer, adapter, h5, handles, ret>>

\* Mutant of CloseFile: the file is closed where the block ends normally,
\* not where an exception leaves it.
CloseFileOnReturnOnly ==
    /\ stack # <<>> /\ Top.pc = "exit"
    /\ handles' = IF Top.outcome.raised = "none" THEN handles - 1 ELSE handles
    /\ Deliver(Top.outcome)
    /\ UNCHANGED <<storage, instance, consumer, adapter, h5>>

\* The end of a with block, by its last line or by an exception: the file
\* is closed and the function returns or raises.
CloseFile ==
    /\ stack # <<>> /\ Top.pc = "exit"
    /\ handles' = handles - 1
    /\ Deliver(Top.outcome)
    /\ UNCHANGED <<storage, instance, consumer, adapter, h5>>

\* ------------------------------------------------- mesh validity filter
MaxApplications == 2

\* 1 / epsilon^2 for the epsilon of the filter.
EpsilonInverseSq == 1000000

Minus(a, b) == [k \in 1..3 |-> a[k] - b[k]]

Cross(a, b) ==
    <<a[2] * b[3] - a[3] * b[2], a[3] * b[1] - a[1] * b[3], a[1] * b[2] - a[2] * b[1]>>

NormSq(a) == a[1] * a[1] + a[2] * a[2] + a[3] * a[3]

\* The squared magnitude of the cross product of the two edge vectors of a
\* triangle, whose entries are 0-based positions in `vertices`.
CrossSq(triangle, vertices) ==
    NormSq(Cross(Minus(vertices[triangle[2] + 1], vertices[triangle[1] + 1]),
                 Minus(vertices[triangle[3] + 1], vertices[triangle[1] + 1])))

\* The square of the mesh's characteristic length: the largest squared
\* distance between two of its vertices.
CharacteristicLengthSq(vertices) ==
    LET distances == { NormSq(Minus(vertices[i], vertices[j])) :
                         i \in 1..Len(vertices), j \in 1..Len(vertices) }
    IN  CHOOSE d \in distances : \A e \in distances : e <= d

\* Mutant of NonDegenerateMask: the threshold is taken from the triangles
\* passed in, a triangle counting as non-degenerate when it is larger than
\* the smallest of them.
NonDegenerateMaskRelativeToSmallest(triangles, vertices) ==
    [i \in 1..Len(triangles) |->
        \E j \in 1..Len(triangles) :
            CrossSq(triangles[i], vertices) > CrossSq(triangles[j], vertices)]

\* non_degenerate_mask(triangles, vertices): TRUE for the triangles whose
\* cross product magnitude exceeds epsilon times the squared characteristic
\* length of the mesh.
NonDegenerateMask(triangles, vertices) ==
    [i \in 1..Len(triangles) |->
        CrossSq(triangles[i], vertices) * EpsilonInverseSq >
            CharacteristicLengthSq(vertices) * CharacteristicLengthSq(vertices)]

\* triangles[mask]: the rows whose mask entry is TRUE, in order.
RECURSIVE SelectByMask(_, _)
SelectByMask(rows, mask) ==
    IF rows = <<>> THEN <<>>
    ELSE (IF Head(mask) THEN <<Head(rows)>> ELSE <<>>)
         \o SelectByMask(Tail(rows), Tail(mask))

\* The caller filters the mesh it holds, as extract_mesh returned it or as
\* an earlier filtering left it: mask = non_degenerate_mask(triangles,
\* vertices); triangles = triangles[mask].
FilterDegenerate ==
    /\ stack = <<>>
    /\ ret.raised = "none"
    /\ \/ /\ ret.op = "extract_mesh"
          /\ File[ret.arg.component].ndim = 3
          /\ LET mask == NonDegenerateMask(ret.val[2], ret.val[1])
             IN  ret' = Returned("non_degenerate_mask",
                                 [component |-> ret.arg.component,
                                  timestep |-> ret.arg.timestep,
                                  applications |-> 1],
                                 <<ret.val[1], SelectByMask(ret.val[2], mask), mask>>)
       \/ /\ ret.op = "non_degenerate_mask"
          /\ ret.arg.applications < MaxApplications
          /\ LET mask == NonDegenerateMask(ret.val[2], ret.val[1])
             IN  ret' = Returned("non_degenerate_mask",
                                 [ret.arg EXCEPT !.applications = @ + 1],
                                 <<ret.val[1], SelectByMask(ret.val[2], mask), mask>>)
    /\ UNCHANGED <<storage, instance, consumer, adapter, extraction>>

\* A result file, or none, before any extraction call.
InitExtract ==
    /\ h5 \in {<<>>} \cup { <<f>> : f \in ShapeFiles \cup MeshFiles }
    /\ stack = <<>>
    /\ handles = 0
    /\ h5_dir = "dir"
    /\ metadata_csv = <<>>
    /\ h5_files = {}
    /\ constructed = FALSE
    /\ self_metadata = EmptyFrame
    /\ gen = NoGen
    /\ out = <<>>
    /\ prev = <<>>
    /\ ret = Returned("start", 0, <<>>)
    /\ dataset_metadata = <<>>

\* ---------------------------------------------------------- specifications
\* The DDACSIterator class over a changing result directory.
Next ==
    \/ AddFile
    \/ RemoveFile
    \/ Construct
    \/ LenCall
    \/ IterStart
    \/ IterNext
    \/ GetById
    \/ Sample
    \/ StrCall

Spec == Init /\ [][Next]_vars

\* The calls that return a value at once: no iteration in progress.
NextCalls ==
    \/ AddFile
    \/ RemoveFile
    \/ Construct
    \/ LenCall
    \/ GetById
    \/ Sample
    \/ StrCall

SpecCalls == Init /\ [][NextCalls]_vars

\* Iteration, interleaved with len and get_by_id.
NextIter ==
    \/ AddFile
    \/ RemoveFile
    \/ Construct
    \/ IterStart
    \/ IterNext
    \/ LenCall
    \/ GetById

SpecIter == Init /\ [][NextIter]_vars

\* The module-level functions of generators.py beside the class.
NextGen ==
    \/ AddFile
    \/ RemoveFile
    \/ Construct
    \/ Sample
    \/ SampleSimulations

SpecGen == Init /\ [][NextGen]_vars

\* Every access path to the records of a dataset directory that stays as it
\* was found.
NextParams ==
    \/ Construct
    \/ IterStart
    \/ IterNext
    \/ GetById
    \/ Sample
    \/ ConstructDataset
    \/ GetItem
    \/ IterDdacs
    \/ DatasetLen
    \/ GetSimulationById
    \/ CountAvailableSimulations

SpecParams == InitParams /\ [][NextParams]_vars

\* The extraction functions on one result file.
NextExtract ==
    \/ ExtractPointCloud
    \/ ExtractMesh
    \/ ExtractElementThickness
    \/ LoadGeometryData
    \/ OpenFile
    \/ PointCloudRead
    \/ MeshVertices
    \/ MeshTriangles
    \/ ThicknessRead
    \/ LoadGeometryLoop
    \/ CloseFile
    \/ FilterDegenerate
    \/ ExtractWithOperation

SpecExtract == InitExtract /\ [][NextExtract]_vars

\* ------------------------------------------------------------------ claims
\* The IDs of the instance's filtered table: the available set.
AvailableSet == { self_metadata.rows[i][1] : i \in 1..Len(self_metadata.rows) }

\* The IDs of the metadata table on storage.
TableIds ==
    IF metadata_csv = <<>> THEN {}
    ELSE { metadata_csv[1].rows[i][1] : i \in 1..Len(metadata_csv[1].rows) }

\* The position of an ID in the metadata table on storage.
TablePos(id) == CHOOSE i \in 1..Len(metadata_csv[1].rows) : metadata_csv[1].rows[i][1] = id

\* The IDs of a sequence of triples.
IdsOf(triples) == { triples[i][1] : i \in 1..Len(triples) }

\* C1: right after a successful construction the available set is exactly the
\* set of metadata IDs whose result file exists, with one row per such ID; and
\* len(iterator) is the size of the available set.
C1_Reconciliation ==
    /\ (ret.op = "init" /\ ret.raised = "none") =>
          /\ AvailableSet = { id \in TableIds : id \in h5_files }
          /\ Len(self_metadata.rows) = Cardinality({ id \in TableIds : id \in h5_files })
    /\ ret.op = "len" => ret.val = <<Cardinality(AvailableSet)>>

\* Three metadata rows, two result files among them, and len has answered 2.
C1_Witness ==
    /\ ret.op = "len" /\ ret.val = <<2>>
    /\ Cardinality(TableIds) = 3
    /\ Cardinality(TableIds \cap h5_files) = 2
    /\ AvailableSet = TableIds \cap h5_files

C3_IterationOrder ==
    /\ IdsOf(out) \subseteq AvailableSet
    /\ \A i, j \in 1..Len(out) : i < j => TablePos(out[i][1]) < TablePos(out[j][1])
    /\ gen.state = "done" =>
          /\ IdsOf(out) = AvailableSet
          /\ Len(out) = Cardinality(AvailableSet)

\* A finished iteration over a three-row table whose middle row was filtered
\* out yielded the first and the last row.
C3_Witness ==
    /\ gen.state = "done" /\ Len(out) = 2
    /\ Len(metadata_csv[1].rows) = 3
    /\ out[1][1] = metadata_csv[1].rows[1][1]
    /\ out[2][1] = metadata_csv[1].rows[3][1]

\* C4: for n >= 0, sample(n) yields min(n, len(iterator)) records, all of
\* them available IDs, none of them twice.
C4_SamplingBounds ==
    (ret.op = "sample" /\ ret.arg >= 0) =>
        /\ ret.raised = "none"
        /\ Len(ret.val) = Min(ret.arg, Len(self_metadata.rows))
        /\ IdsOf(ret.val) \subseteq AvailableSet
        /\ \A i, j \in 1..Len(ret.val) : ret.val[i][1] = ret.val[j][1] => i = j

\* sample(2) on three available simulations returned two records.
C4_Witness ==
    /\ ret.op = "sample" /\ ret.arg = 2
    /\ Len(self_metadata.rows) = 3
    /\ Len(ret.val) = 2

\* C5: a negative n makes sample fail with an invalid-argument error and
\* yield nothing, whatever the available set is; stated for the method and
\* for the function sample_simulations, on a dataset whose directory and
\* metadata file exist.
C5_NegativeSampleFails ==
    (ret.op \in {"sample", "sample_simulations"} /\ ret.arg < 0
       /\ h5_dir = "dir" /\ metadata_csv # <<>>) =>
        ret.raised = "ValueError" /\ ret.val = <<>>

\* C6: a full iteration yields the same list as the full iteration before
\* it, and every iteration begins at the first available record.
C6_Restartable ==
    /\ (gen.state = "done" /\ prev # <<>>) => out = prev[1]
    /\ Len(out) >= 1 => out[1][1] = self_metadata.rows[1][1]

\* Two full iterations of at least two records, with a sample or lookup made
\* and the result files changed since construction.
C6_Witness ==
    /\ gen.state = "done" /\ prev # <<>> /\ Len(out) >= 2
    /\ ret.op \in {"sample", "get_by_id"}
    /\ AvailableSet # TableIds \cap h5_files

\* C7: construction raises FileNotFoundError and leaves no instance when the
\* result directory or the metadata file is missing, and succeeds otherwise.
C7_ConstructionNotFound ==
    ret.op = "init" =>
        IF h5_dir # "dir" \/ metadata_csv = <<>>
        THEN ret.raised = "FileNotFoundError" /\ ~constructed
        ELSE ret.raised = "none" /\ constructed

\* Construction failed on a dataset that has its metadata file but no result
\* directory.
C7_Witness ==
    /\ ret.op = "init" /\ ret.raised = "FileNotFoundError"
    /\ h5_dir = "absent" /\ metadata_csv # <<>>

\* C8: construction warns exactly when fewer IDs are available than the
\* table has rows, the warning carries (available, total), and a missing
\* result file never makes construction fail.
C8_MismatchWarning ==
    /\ (ret.op = "init" /\ ret.raised = "none") =>
          /\ ret.warning # <<>> <=> Cardinality(AvailableSet) < Cardinality(TableIds)
          /\ ret.warning # <<>> =>
                ret.warning = <<[available |-> Cardinality(AvailableSet),
                                 total |-> Cardinality(TableIds)]>>
    /\ (ret.op = "init" /\ h5_dir = "dir" /\ metadata_csv # <<>>) =>
          ret.raised = "none" /\ constructed

\* Construction over three rows with one result file missing succeeded and
\* warned 2/3.
C8_Witness ==
    /\ ret.op = "init" /\ constructed
    /\ ret.warning = <<[available |-> 2, total |-> 3]>>

IsConstructStep == ret'.op = "init" /\ gen' = NoGen /\ UNCHANGED storage

\* C10: no step but a construction changes the instance's table; what len,
\* get_by_id, sample, str and iteration give is read from that table, not
\* from the files now on storage; a construction derives the table from the
\* files on storage at that time.
C10_ReadOnly ==
    [][ /\ (constructed /\ ~IsConstructStep) =>
              (constructed' /\ self_metadata' = self_metadata)
        /\ (IsConstructStep /\ constructed') =>
              AvailableSet' = TableIds \cap h5_files
        /\ (constructed /\ ret'.op \in {"len", "str"}) =>
              ret'.val[1] = Cardinality(AvailableSet)
        /\ (constructed /\ ret'.op = "get_by_id") =>
              (ret'.val # <<>> <=> ret'.arg \in AvailableSet)
        /\ (constructed /\ ret'.op = "sample") =>
              IdsOf(ret'.val) \subseteq AvailableSet
        /\ (constructed /\ ~IsConstructStep) => IdsOf(out') \subseteq AvailableSet
      ]_vars

\* get_by_id returned the record of an ID whose result file was removed
\* after construction, while a file added since is not available.
C10_Witness ==
    /\ constructed
    /\ ret.op = "get_by_id" /\ ret.val # <<>> /\ ret.arg \notin h5_files
    /\ (TableIds \cap h5_files) \ AvailableSet # {}

\* The triples a caller holds: the ones iteration has yielded so far and the
\* ones the last get_by_id or sample call returned.
SurfacedTriples ==
    { out[i] : i \in 1..Len(out) }
    \cup (IF ret.op \in {"get_by_id", "sample"} /\ ret.raised = "none"
          THEN { ret.val[i] : i \in 1..Len(ret.val) } ELSE {})

\* C11 as stated: every triple that iteration, get_by_id or sample hands out
\* carries the path {h5_dir}/{id}.h5 of its own ID, and that path refers to a
\* file that exists.
C11_PathExistsNow ==
    \A t \in SurfacedTriples :
        /\ t[3] = [parent |-> "h5_dir", stem |-> t[1], suffix |-> ".h5"]
        /\ PathExists(t[3])

\* C11, amended: every triple that iteration, get_by_id or sample hands out
\* carries the path {h5_dir}/{id}.h5 of its own ID, and that path refers to a
\* file that existed when the iterator was constructed; it exists now as long
\* as storage has not changed since the construction.
C11_PathOfOwnId ==
    /\ \A t \in SurfacedTriples :
          /\ t[3] = [parent |-> "h5_dir", stem |-> t[1], suffix |-> ".h5"]
          /\ t[1] \in AvailableSet
    /\ (constructed /\ ret.op = "init") =>
          /\ \A id \in AvailableSet : h5_dir = "dir" /\ id \in h5_files
          /\ \A i \in 1..Len(out) : PathExists(out[i][3])

\* Iteration has yielded two triples since the construction and both files
\* are on storage.
C11_Witness ==
    /\ constructed /\ ret.op = "init"
    /\ Len(out) = 2
    /\ \A i \in 1..2 : out[i][3].stem = out[i][1] /\ out[i][1] \in h5_files

\* The records handed out by any access path: iteration, get_by_id, sample,
\* DDACSDataset indexing and iter_ddacs.
AllRecords ==
    { out[i] : i \in 1..Len(out) }
    \cup (IF ret.op \in {"get_by_id", "sample", "getitem", "iter_ddacs"}
          THEN { ret.val[i] : i \in 1..Len(ret.val) } ELSE {})

\* C12: the parameters of every record, whatever the access path, are the
\* cells of the metadata row of the record's ID without the ID cell, in
\* column order: as many as the table has columns after the ID column, the
\* same number for every record.
C12_ParametersShape ==
    \A t \in AllRecords :
        LET row == ReadCsv.rows[TablePos(t[1])]
        IN  /\ Len(t[2]) = Len(ReadCsv.columns) - 1
            /\ \A c \in 1..Len(t[2]) : t[2][c] = row[c + 1]
            /\ \A u \in AllRecords : Len(u[2]) = Len(t[2])

\* A table with two parameter columns: iteration has yielded a record and
\* DDACSDataset indexing has returned one, each with two parameters.
C12_Witness ==
    /\ Len(ReadCsv.columns) = 3
    /\ Len(out) >= 1 /\ Len(out[1][2]) = 2
    /\ ret.op = "getitem" /\ ret.raised = "none" /\ Len(ret.val[1][2]) = 2

\* ----------------------------------------------------- extraction claims
\* The component group a finished extraction call named, when the file has it.
CalledOnComponent(fn) ==
    /\ ret.op = fn
    /\ h5 # <<>>
    /\ ret.arg.component \in DOMAIN File

CalledGroup == File[ret.arg.component]

\* C13: extract_point_cloud with timestep -1 returns what it returns with
\* timestep T - 1, the last stored timestep, where T is the number of
\* timesteps of the named component's own node_displacement, whatever the
\* other components of the file have.
C13_LastTimestep ==
    (CalledOnComponent("extract_point_cloud") /\ CalledGroup.ndim = 3) =>
        LET T == Len(CalledGroup.node_displacement)
        IN  ret.arg.timestep \in {0 - 1, T - 1} =>
                /\ ret.raised = "none"
                /\ ret.val = CalledGroup.node_displacement[T]

\* extract_point_cloud(f, "blank", -1) has returned the third timestep of a
\* blank with three timesteps in a file whose binder has one.
C13_Witness ==
    /\ CalledOnComponent("extract_point_cloud")
    /\ ret.arg = [component |-> "blank", timestep |-> 0 - 1]
    /\ File["blank"].ndim = 3 /\ Len(File["blank"].node_displacement) = 3
    /\ File["binder"].ndim = 3 /\ Len(File["binder"].node_displacement) = 1
    /\ ret.val = File["blank"].node_displacement[3]

\* A finished load_geometry_data call on an existing file.
LoadedGeometries == ret.op = "load_geometry_data" /\ h5 # <<>>

\* C14 as stated: a requested timestep t >= T, T the timestep count of the
\* component, does not fail: extract_point_cloud and load_geometry_data
\* return the data of timestep T - 1 and emit a warning.
C14_ClipsAndWarns ==
    /\ (CalledOnComponent("extract_point_cloud") /\ CalledGroup.ndim = 3) =>
          LET T == Len(CalledGroup.node_displacement)
          IN  ret.arg.timestep >= T =>
                  /\ ret.raised = "none"
                  /\ ret.val = CalledGroup.node_displacement[T]
                  /\ ret.warning # <<>>
    /\ LoadedGeometries =>
          \A k \in 1..Len(ret.arg.component) :
              LET c == ret.arg.component[k]
              IN  (c \in DOMAIN File /\ File[c].ndim = 3
                     /\ ret.arg.timestep >= Len(File[c].node_displacement)) =>
                      /\ ret.raised = "none"
                      /\ \E g \in 1..Len(ret.val) :
                            /\ ret.val[g].component = c
                            /\ ret.val[g].coordinates =
                                  AddArrays(File[c].node_coordinates,
                                            File[c].node_displacement[
                                                Len(File[c].node_displacement)])
                      /\ \E w \in 1..Len(ret.warning) :
                            ret.warning[w] = [component |-> c, kind |-> "clipped"]

\* C15 as stated: where node_displacement is a time series, the points
\* returned for a stored timestep t are node_coordinates +
\* node_displacement[t].
C15_DisplacementApplied ==
    /\ (CalledOnComponent("extract_point_cloud") /\ CalledGroup.ndim = 3
           /\ ret.arg.timestep >= 0
           /\ ret.arg.timestep < Len(CalledGroup.node_displacement)) =>
          /\ ret.raised = "none"
          /\ ret.val = AddArrays(CalledGroup.node_coordinates,
                                 CalledGroup.node_displacement[ret.arg.timestep + 1])
    /\ (LoadedGeometries /\ Len(ret.arg.component) = 1
           /\ ret.arg.component[1] \in DOMAIN File) =>
          LET group == File[ret.arg.component[1]]
          IN  (group.ndim = 3 /\ ret.arg.timestep >= 0
                 /\ ret.arg.timestep < Len(group.node_displacement)) =>
                  /\ ret.raised = "none"
                  /\ ret.val[1].coordinates =
                        AddArrays(group.node_coordinates,
                                  group.node_displacement[ret.arg.timestep + 1])

\* The 0-based position of a node ID in the node_ids of the called group.
PositionOf(nid) ==
    (CHOOSE i \in 1..Len(CalledGroup.node_ids) : CalledGroup.node_ids[i] = nid) - 1

\* The rows of element_shell_node_ids whose four node IDs are all in
\* node_ids, in element order.
ResolvedQuads ==
    SelectSeq(CalledGroup.element_shell_node_ids,
              LAMBDA q : \A k \in 1..4 :
                            \E i \in 1..Len(CalledGroup.node_ids) :
                               CalledGroup.node_ids[i] = q[k])

\* C16: extract_mesh keeps exactly the quads all four of whose node IDs are
\* in node_ids and gives, for the k-th of them in element order, the
\* triangles (i0, i1, i2) and (i0, i2, i3) of the 0-based positions of its
\* node IDs, one after the other: twice as many triangles as kept quads,
\* repeated quads included.
C16_QuadSplit ==
    (CalledOnComponent("extract_mesh") /\ ret.raised = "none") =>
        LET triangles == ret.val[2]
        IN  /\ Len(triangles) = 2 * Len(ResolvedQuads)
            /\ \A k \in 1..Len(ResolvedQuads) :
                  LET q == ResolvedQuads[k]
                  IN  /\ triangles[2 * k - 1] =
                            <<PositionOf(q[1]), PositionOf(q[2]), PositionOf(q[3])>>
                      /\ triangles[2 * k] =
                            <<PositionOf(q[1]), PositionOf(q[3]), PositionOf(q[4])>>

\* extract_mesh has returned two triangles for a blank whose node_ids are
\* not stored in ascending order and whose first element names an unknown
\* node ID and is dropped.
C16_Witness ==
    /\ CalledOnComponent("extract_mesh") /\ ret.raised = "none"
    /\ ret.arg.component = "blank"
    /\ CalledGroup.node_ids = <<15, 13, 11, 14, 12>>
    /\ CalledGroup.element_shell_node_ids = << <<11, 12, 13, 99>>, <<11, 12, 13, 14>> >>
    /\ ret.val[2] = << <<2, 4, 1>>, <<2, 1, 3>> >>

\* C17: extract_element_thickness with timestep -1 returns what it returns
\* with timestep T - 1, T being the number of timesteps of the thickness
\* field itself, and whatever it returns has one value per element.
C17_ThicknessLastTimestep ==
    CalledOnComponent("extract_element_thickness") =>
        LET T == Len(CalledGroup.element_shell_thickness)
        IN  /\ ret.arg.timestep \in {0 - 1, T - 1} =>
                  /\ ret.raised = "none"
                  /\ ret.val = CalledGroup.element_shell_thickness[T]
            /\ ret.raised = "none" =>
                  Len(ret.val) = Len(CalledGroup.element_shell_node_ids)

\* extract_element_thickness(f, "blank", -1) has returned the third
\* timestep of a thickness field with three timesteps and two elements,
\* where node_displacement has two timesteps.
C17_Witness ==
    /\ CalledOnComponent("extract_element_thickness")
    /\ ret.arg = [component |-> "blank", timestep |-> 0 - 1]
    /\ Len(CalledGroup.element_shell_thickness) = 3
    /\ Len(CalledGroup.node_displacement) = 2
    /\ ret.val = CalledGroup.element_shell_thickness[3]
    /\ Len(ret.val) = 2

\* C19 as stated: for one file, component and timestep, extract_mesh
\* returns as many triangles as extract_element_thickness returns entries.
C19_TrianglesMatchThickness ==
    (CalledOnComponent("extract_mesh") /\ ret.raised = "none") =>
        LET thickness == ThicknessBody(ret.arg.component, ret.arg.timestep)
        IN  thickness.raised = "none" => Len(ret.val[2]) = Len(thickness.val)

\* C20: when no extraction call is running, each one having returned or
\* raised, no handle on the result file is open.
C20_HandlesReleased == stack = <<>> => handles = 0

\* extract_mesh has raised the IndexError of its inner extract_point_cloud
\* call, which left two with blocks by an exception, and no handle is open.
C20_Witness ==
    /\ ret.op = "extract_mesh" /\ ret.raised = "IndexError"
    /\ stack = <<>> /\ handles = 0

ExtractionFunctions == {"extract_point_cloud", "extract_mesh", "extract_element_thickness"}

\* C21: an extraction call on a result file that does not exist ends with
\* FileNotFoundError, and one that names a component the existing file does
\* not have ends with KeyError; either way the caller gets the exception
\* and no data.
C21_NotFoundErrors ==
    ret.op \in ExtractionFunctions =>
        /\ h5 = <<>> => (ret.raised = "FileNotFoundError" /\ ret.val = <<>>)
        /\ (h5 # <<>> /\ ret.arg.component \notin DOMAIN File) =>
              (ret.raised = "KeyError" /\ ret.val = <<>>)

\* extract_point_cloud has raised KeyError for the component "die" of an
\* existing file.
C21_Witness ==
    /\ ret.op = "extract_point_cloud" /\ h5 # <<>>
    /\ ret.arg.component = "die" /\ ret.raised = "KeyError"

\* C22: a DDACSDataset (without transform) and a DDACSIterator constructed
\* on the same storage state agree: len(dataset) is the number of rows the
\* iterator holds and the number of triples a full iteration yields, and
\* dataset[i] for 0 <= i < len is the triple iteration yields at position i.
C22_AdapterConsistent ==
    (constructed /\ dataset_metadata # <<>>) =>
        /\ ret.op = "dataset_len" =>
              /\ ret.val[1] = Len(self_metadata.rows)
              /\ gen.state = "done" => ret.val[1] = Len(out)
        /\ (ret.op = "getitem" /\ ret.arg >= 0 /\ ret.arg < Len(self_metadata.rows)) =>
              /\ ret.raised = "none"
              /\ Len(out) > ret.arg => ret.val[1] = out[ret.arg + 1]

\* Of a table with a row whose result file is missing, iteration has
\* yielded two triples and dataset[1] has returned the second of them.
C22_Witness ==
    /\ constructed /\ dataset_metadata # <<>>
    /\ Len(ReadCsv.rows) > Len(self_metadata.rows)
    /\ ret.op = "getitem" /\ ret.arg = 1 /\ ret.raised = "none"
    /\ Len(out) = 2 /\ ret.val[1] = out[2]

\* C23 as stated: load_geometry_data gives every listed component that has
\* a time series the timestep the caller asked for resolved against that
\* component's own timestep count T: its last timestep for -1 and for a
\* request >= T, the requested one otherwise, whatever else is in the list.
C23_OwnTimestep ==
    (LoadedGeometries /\ ret.arg.timestep >= 0 - 1) =>
        \A k \in 1..Len(ret.arg.component) :
            LET c == ret.arg.component[k]
            IN  (c \in DOMAIN File /\ File[c].ndim = 3) =>
                    LET T == Len(File[c].node_displacement)
                        t == ret.arg.timestep
                        own == IF t = 0 - 1 \/ t >= T THEN T ELSE t + 1
                    IN  /\ ret.raised = "none"
                        /\ \E g \in 1..Len(ret.val) :
                              /\ ret.val[g].component = c
                              /\ ret.val[g].coordinates =
                                    AddArrays(File[c].node_coordinates,
                                              File[c].node_displacement[own])

\* The positions of the table rows whose result file is missing.
MissingPositions ==
    { i \in 1..Len(ReadCsv.rows) : ReadCsv.rows[i][1] \notin h5_files }

\* C24: iter_ddacs yields the triples of the table rows before the first
\* row whose result file is missing, in table order, and raises
\* FileNotFoundError at that row; it yields every row and ends normally
\* when no file is missing.  No row after a missing file is yielded.
C24_RaisesAtFirstMissing ==
    (ret.op = "iter_ddacs" /\ DirExists /\ MetadataExists) =>
        LET rows == ReadCsv.rows
            first == IF MissingPositions = {} THEN Len(rows) + 1
                     ELSE CHOOSE i \in MissingPositions :
                              \A j \in MissingPositions : i <= j
        IN  /\ Len(ret.val) = first - 1
            /\ \A i \in 1..Len(ret.val) :
                  ret.val[i] = <<rows[i][1], Tail(rows[i]),
                                 [parent |-> "h5_dir", stem |-> rows[i][1], suffix |-> ".h5"]>>
            /\ ret.raised = IF MissingPositions = {} THEN "none" ELSE "FileNotFoundError"

\* Of a table of three rows whose second row has no result file,
\* iter_ddacs has yielded the first row and raised.
C24_Witness ==
    /\ ret.op = "iter_ddacs" /\ ret.raised = "FileNotFoundError"
    /\ Len(ReadCsv.rows) = 3 /\ MissingPositions = {2}
    /\ Len(ret.val) = 1

C26_CountAgreesWithLen ==
    (constructed /\ ret.op = "count_available_simulations") =>
        /\ ret.raised = "none"
        /\ ret.val[1] = Len(self_metadata.rows)
        /\ gen.state = "done" => ret.val[1] = Len(out)

\* count_available_simulations has returned 2 for a table of three rows of
\* which a full iteration has yielded two.
C26_Witness ==
    /\ constructed /\ ret.op = "count_available_simulations"
    /\ Len(ReadCsv.rows) = 3 /\ ret.val = <<2>>
    /\ gen.state = "done" /\ Len(out) = 2

\* C27 as stated: for a component whose node_displacement is one static
\* field of shape (nodes, 3), the points returned are the same whatever
\* timestep is requested (the field itself, or the field added to
\* node_coordinates), and a warning is emitted for every requested timestep
\* other than 0, -1 included.
C27_StaticField ==
    /\ (CalledOnComponent("extract_point_cloud") /\ CalledGroup.ndim = 2) =>
          /\ ret.raised = "none"
          /\ ret.val \in { CalledGroup.node_displacement,
                            AddArrays(CalledGroup.node_coordinates,
                                      CalledGroup.node_displacement) }
          /\ ret.arg.timestep # 0 => ret.warning # <<>>
    /\ (LoadedGeometries /\ Len(ret.arg.component) = 1
           /\ ret.arg.component[1] \in DOMAIN File) =>
          LET c == ret.arg.component[1]
          IN  File[c].ndim = 2 =>
                  /\ ret.raised = "none"
                  /\ ret.val[1].coordinates =
                        AddArrays(File[c].node_coordinates, File[c].node_displacement)
                  /\ ret.arg.timestep # 0 =>
                        \E w \in 1..Len(ret.warning) :
                            ret.warning[w] = [component |-> c, kind |-> "static"]

\* C28 as stated: extract_mesh and extract_element_thickness accept the
\* operation the caller requests and read the component from that
\* operation's namespace: with operation 10 they return what is stored
\* under OP10/<component>, and with any operation the call is carried out
\* rather than rejected.
C28_OperationNamespace ==
    ret.op = "call_with_operation" =>
        /\ ret.raised # "TypeError"
        /\ (ret.arg.operation = 10 /\ h5 # <<>> /\ ret.arg.component \in DOMAIN File
               /\ ret.arg.timestep = 0) =>
              /\ ret.raised = "none"
              /\ ret.arg.fn = "extract_element_thickness" =>
                    ret.val = File[ret.arg.component].element_shell_thickness[1]
              /\ ret.arg.fn = "extract_mesh" =>
                    ret.val[2] = Triangles(File[ret.arg.component].node_ids,
                                           File[ret.arg.component].element_shell_node_ids)

\* C29 as stated: the vertices extract_mesh returns have one row per entry
\* of node_ids, and every index of every returned triangle is a 0-based
\* row number of them, also where the connectivity names node IDs that are
\* not in node_ids.
C29_ValidIndices ==
    (CalledOnComponent("extract_mesh") /\ ret.raised = "none") =>
        /\ Len(ret.val[1]) = Len(CalledGroup.node_ids)
        /\ \A i \in 1..Len(ret.val[2]) : \A k \in 1..3 :
              ret.val[2][i][k] >= 0 /\ ret.val[2][i][k] < Len(ret.val[1])

\* C30 as stated: at no moment of an extraction call is more than one
\* handle on the result file open.
C30_AtMostOneHandle == handles <= 1

\* C30, amended: every running function holds exactly one handle from the
\* entry of its with block to its exit, so at most two handles are open at
\* any moment, and two are open only while extract_mesh, holding its own
\* handle, waits for the extract_point_cloud call it made, which has opened
\* the same file again.
C30_HandlesPerFrame ==
    /\ handles = Cardinality({ i \in 1..Len(stack) : stack[i].pc # "open" })
    /\ handles <= 2
    /\ handles = 2 =>
          /\ stack[1].fn = "extract_mesh" /\ stack[1].pc = "call"
          /\ stack[2].fn = "extract_point_cloud"

\* extract_point_cloud, called by extract_mesh, has opened the file while
\* extract_mesh holds its handle.
C30_Witness ==
    /\ handles = 2
    /\ Len(stack) = 2 /\ stack[1].fn = "extract_mesh" /\ stack[2].pc = "body"
====
